---- MODULE Spec2Model ----
(***************************************************************************)
(* FuturesOrdered (futures-util/src/stream/futures_ordered.rs): a queue of *)
(* futures whose results are yielded in the order the futures were pushed. *)
(*                                                                         *)
(* A future is modelled by the value it resolves to and by whether it      *)
(* would resolve when polled.  The queue's four fields are the first four  *)
(* variables; the others record what the caller did and observed.          *)
(***************************************************************************)
EXTENDS Integers, Sequences, FiniteSets, TLC

\* Number of futures pushed over the life of the queue.
MaxTasks == 3

\* Outputs a future can resolve to.
Values == {"a", "b"}

VARIABLES
    in_progress_queue,    \* FuturesUnordered<OrderWrapper<T>>, in push order
    queued_results,       \* BinaryHeap<OrderWrapper<T::Output>>, in insertion order
    next_incoming_index,
    next_outgoing_index,
    submitted,            \* the futures pushed so far, as they were when pushed
    emitted,              \* the wrappers whose items poll_next returned, in return order
    op,                   \* the last operation
    ret,                  \* what the last operation returned
    mux_polls,            \* polls of in_progress_queue made by the last operation
    none_seen,            \* poll_next has returned Ready(None) at some time
    none_run,             \* how many of the latest operations were polls returning
                          \* Ready(None), counted up to 2
    tick                  \* parity of the number of operations made

vars == <<in_progress_queue, queued_results, next_incoming_index,
          next_outgoing_index, submitted, emitted, op, ret, mux_polls,
          none_seen, none_run, tick>>

\* ------------------------------------------------------------------ values

\* A future: the output it resolves to, and whether a poll would find it resolved.
Futures == [output : Values, ready : BOOLEAN]

NoItem == "-"

NoWrapper == [item |-> NoItem, index |-> -1]

PollPending == [kind |-> "Pending", item |-> NoItem]

ReadyNone == [kind |-> "ReadyNone", item |-> NoItem]

ReadySome(v) == [kind |-> "ReadySome", item |-> v]

Unit == [kind |-> "Unit", item |-> NoItem]

RemoveAt(s, i) == SubSeq(s, 1, i - 1) \o SubSeq(s, i + 1, Len(s))

\* ------------------------------------------------------------ OrderWrapper

\* The ordering with the comparison done forwards.
cmp_forward(self, other) ==
    IF self.index < other.index THEN "Less"
    ELSE IF self.index = other.index THEN "Equal"
    ELSE "Greater"

\* Ord for OrderWrapper: other.index.cmp(&self.index).
cmp(self, other) ==
    IF other.index < self.index THEN "Less"
    ELSE IF other.index = self.index THEN "Equal"
    ELSE "Greater"

\* Future for OrderWrapper: the inner poll, its output tagged with the index.
OrderWrapper_poll(self) ==
    IF self.item.ready
    THEN [kind |-> "Ready", result |-> [item |-> self.item.output, index |-> self.index]]
    ELSE [kind |-> "Pending", result |-> NoWrapper]

\* -------------------------------------------------------------- BinaryHeap

\* Position of the greatest element under cmp (the heap's top).
heap_top(heap) ==
    CHOOSE i \in 1..Len(heap) :
        \A j \in 1..Len(heap) : cmp(heap[i], heap[j]) # "Less"

heap_peek(heap) == heap[heap_top(heap)]

heap_pop(heap) == RemoveAt(heap, heap_top(heap))

heap_push(heap, x) == Append(heap, x)

\* -------------------------------------------------------- FuturesUnordered

\* One poll of the multiplexer: Ready(None) when it holds nothing, otherwise
\* any one of the futures that resolve (removed from the set), otherwise Pending.
FuturesUnordered_poll_next(q) ==
    IF q = <<>>
    THEN {[kind |-> "ReadyNone", result |-> NoWrapper, rest |-> q]}
    ELSE LET ready == {i \in 1..Len(q) : OrderWrapper_poll(q[i]).kind = "Ready"}
         IN  IF ready = {}
             THEN {[kind |-> "Pending", result |-> NoWrapper, rest |-> q]}
             ELSE {[kind |-> "ReadySome",
                    result |-> OrderWrapper_poll(q[i]).result,
                    rest |-> RemoveAt(q, i)] : i \in ready}

\* ---------------------------------------------------------- FuturesOrdered

this ==
    [in_progress_queue |-> in_progress_queue,
     queued_results |-> queued_results,
     next_incoming_index |-> next_incoming_index,
     next_outgoing_index |-> next_outgoing_index]

new ==
    [in_progress_queue |-> <<>>,
     queued_results |-> <<>>,
     next_incoming_index |-> 0,
     next_outgoing_index |-> 0]

len(self) == Len(self.in_progress_queue) + Len(self.queued_results)

is_empty(self) == self.in_progress_queue = <<>> /\ self.queued_results = <<>>

\* push that forgets to advance next_incoming_index.
push_no_increment(self, future) ==
    [self EXCEPT
        !.in_progress_queue =
            Append(@, [item |-> future, index |-> self.next_incoming_index])]

\* push that tags the future after advancing next_incoming_index.
push_increment_first(self, future) ==
    [self EXCEPT
        !.next_incoming_index = @ + 1,
        !.in_progress_queue =
            Append(@, [item |-> future, index |-> self.next_incoming_index + 1])]

push(self, future) ==
    LET wrapped == [item |-> future, index |-> self.next_incoming_index]
    IN  [self EXCEPT
            !.next_incoming_index = @ + 1,
            !.in_progress_queue = Append(@, wrapped)]

\* The loop's match with every resolved result returned at once.
loop_arm_release_any(self, polled) ==
    CASE polled.kind = "ReadySome" ->
            [return |-> TRUE,
             self |-> [self EXCEPT !.next_outgoing_index = @ + 1],
             ret |-> ReadySome(polled.result.item),
             src |-> polled.result]
      [] polled.kind = "ReadyNone" ->
            [return |-> TRUE, self |-> self, ret |-> ReadyNone, src |-> NoWrapper]
      [] polled.kind = "Pending" ->
            [return |-> TRUE, self |-> self, ret |-> PollPending, src |-> NoWrapper]

\* The loop's match with Ready(None) of the multiplexer reported as Pending.
loop_arm_none_pending(self, polled) ==
    CASE polled.kind = "ReadySome" ->
            IF polled.result.index = self.next_outgoing_index
            THEN [return |-> TRUE,
                  self |-> [self EXCEPT !.next_outgoing_index = @ + 1],
                  ret |-> ReadySome(polled.result.item),
                  src |-> polled.result]
            ELSE [return |-> FALSE,
                  self |-> [self EXCEPT
                               !.queued_results = heap_push(@, polled.result)],
                  ret |-> PollPending,
                  src |-> NoWrapper]
      [] polled.kind = "ReadyNone" ->
            [return |-> TRUE, self |-> self, ret |-> PollPending, src |-> NoWrapper]
      [] polled.kind = "Pending" ->
            [return |-> TRUE, self |-> self, ret |-> PollPending, src |-> NoWrapper]

\* The loop's match with Pending of the multiplexer reported as Ready(None).
loop_arm_pending_none(self, polled) ==
    CASE polled.kind = "ReadySome" ->
            IF polled.result.index = self.next_outgoing_index
            THEN [return |-> TRUE,
                  self |-> [self EXCEPT !.next_outgoing_index = @ + 1],
                  ret |-> ReadySome(polled.result.item),
                  src |-> polled.result]
            ELSE [return |-> FALSE,
                  self |-> [self EXCEPT
                               !.queued_results = heap_push(@, polled.result)],
                  ret |-> PollPending,
                  src |-> NoWrapper]
      [] polled.kind = "ReadyNone" ->
            [return |-> TRUE, self |-> self, ret |-> ReadyNone, src |-> NoWrapper]
      [] polled.kind = "Pending" ->
            [return |-> TRUE, self |-> self, ret |-> ReadyNone, src |-> NoWrapper]

\* The loop's match with Ready(None) also advancing next_outgoing_index.
loop_arm_none_advances(self, polled) ==
    CASE polled.kind = "ReadySome" ->
            IF polled.result.index = self.next_outgoing_index
            THEN [return |-> TRUE,
                  self |-> [self EXCEPT !.next_outgoing_index = @ + 1],
                  ret |-> ReadySome(polled.result.item),
                  src |-> polled.result]
            ELSE [return |-> FALSE,
                  self |-> [self EXCEPT
                               !.queued_results = heap_push(@, polled.result)],
                  ret |-> PollPending,
                  src |-> NoWrapper]
      [] polled.kind = "ReadyNone" ->
            [return |-> TRUE,
             self |-> [self EXCEPT !.next_outgoing_index = @ + 1],
             ret |-> ReadyNone, src |-> NoWrapper]
      [] polled.kind = "Pending" ->
            [return |-> TRUE, self |-> self, ret |-> PollPending, src |-> NoWrapper]

\* The loop's match with an out-of-turn result queued and Pending returned
\* at once, the multiplexer not polled again.
loop_arm_no_drain(self, polled) ==
    CASE polled.kind = "ReadySome" ->
            IF polled.result.index = self.next_outgoing_index
            THEN [return |-> TRUE,
                  self |-> [self EXCEPT !.next_outgoing_index = @ + 1],
                  ret |-> ReadySome(polled.result.item),
                  src |-> polled.result]
            ELSE [return |-> TRUE,
                  self |-> [self EXCEPT
                               !.queued_results = heap_push(@, polled.result)],
                  ret |-> PollPending,
                  src |-> NoWrapper]
      [] polled.kind = "ReadyNone" ->
            [return |-> TRUE, self |-> self, ret |-> ReadyNone, src |-> NoWrapper]
      [] polled.kind = "Pending" ->
            [return |-> TRUE, self |-> self, ret |-> PollPending, src |-> NoWrapper]

\* One iteration of poll_next's loop, given the multiplexer's answer `polled`
\* (self.in_progress_queue is already the multiplexer after that poll):
\* return tells whether the iteration returns from poll_next, ret what it
\* returns, src the wrapper the returned item came from.
loop_arm(self, polled) ==
    CASE polled.kind = "ReadySome" ->
            IF polled.result.index = self.next_outgoing_index
            THEN [return |-> TRUE,
                  self |-> [self EXCEPT !.next_outgoing_index = @ + 1],
                  ret |-> ReadySome(polled.result.item),
                  src |-> polled.result]
            ELSE [return |-> FALSE,
                  self |-> [self EXCEPT
                               !.queued_results = heap_push(@, polled.result)],
                  ret |-> PollPending,
                  src |-> NoWrapper]
      [] polled.kind = "ReadyNone" ->
            [return |-> TRUE, self |-> self, ret |-> ReadyNone, src |-> NoWrapper]
      [] polled.kind = "Pending" ->
            [return |-> TRUE, self |-> self, ret |-> PollPending, src |-> NoWrapper]

\* poll_next's loop: every way it can run to its return, n multiplexer polls
\* having been made before.
RECURSIVE poll_loop(_, _)
poll_loop(self, n) ==
    UNION { LET polled_self == [self EXCEPT !.in_progress_queue = polled.rest]
                arm == loop_arm(polled_self, polled)
            IN  IF arm.return
                THEN {[self |-> arm.self, ret |-> arm.ret,
                       src |-> arm.src, polls |-> n + 1]}
                ELSE poll_loop(arm.self, n + 1)
          : polled \in FuturesUnordered_poll_next(self.in_progress_queue) }

\* poll_next: the queued result when it is the next one, the loop otherwise.
poll_next(self) ==
    IF /\ self.queued_results # <<>>
       /\ heap_peek(self.queued_results).index = self.next_outgoing_index
    THEN {[self |-> [self EXCEPT
                        !.next_outgoing_index = @ + 1,
                        !.queued_results = heap_pop(@)],
           ret |-> ReadySome(heap_peek(self.queued_results).item),
           src |-> heap_peek(self.queued_results),
           polls |-> 0]}
    ELSE poll_loop(self, 0)

RECURSIVE from_iter(_)
from_iter(iter) ==
    IF iter = <<>>
    THEN new
    ELSE push(from_iter(SubSeq(iter, 1, Len(iter) - 1)), iter[Len(iter)])

futures_ordered(futures) == from_iter(futures)

\* ----------------------------------------------------------------- actions

SetThis(self) ==
    /\ in_progress_queue' = self.in_progress_queue
    /\ queued_results' = self.queued_results
    /\ next_incoming_index' = self.next_incoming_index
    /\ next_outgoing_index' = self.next_outgoing_index

Lists == UNION {[1..n -> Futures] : n \in 0..MaxTasks}

Init ==
    /\ in_progress_queue = new.in_progress_queue
    /\ queued_results = new.queued_results
    /\ next_incoming_index = new.next_incoming_index
    /\ next_outgoing_index = new.next_outgoing_index
    /\ submitted = <<>>
    /\ emitted = <<>>
    /\ op = "new"
    /\ ret = Unit
    /\ mux_polls = 0
    /\ none_seen = FALSE
    /\ none_run = 0
    /\ tick = 0

\* The caller pushes a future.
Push(future) ==
    /\ next_incoming_index < MaxTasks
    /\ SetThis(push(this, future))
    /\ submitted' = Append(submitted, future)
    /\ op' = "push"
    /\ ret' = Unit
    /\ mux_polls' = 0
    /\ none_run' = 0
    /\ tick' = 1 - tick
    /\ UNCHANGED <<emitted, none_seen>>

\* The caller builds the queue from a list of futures (from the empty list it
\* is the queue new() gives).
FromIter(iter) ==
    /\ op = "new"
    /\ SetThis(futures_ordered(iter))
    /\ submitted' = iter
    /\ op' = "from_iter"
    /\ ret' = Unit
    /\ mux_polls' = 0
    /\ none_run' = 0
    /\ tick' = 1 - tick
    /\ UNCHANGED <<emitted, none_seen>>

\* A future in the multiplexer becomes able to resolve.
Complete(i) ==
    /\ i \in 1..Len(in_progress_queue)
    /\ ~in_progress_queue[i].item.ready
    /\ in_progress_queue' = [in_progress_queue EXCEPT ![i].item.ready = TRUE]
    /\ op' = "complete"
    /\ ret' = Unit
    /\ mux_polls' = 0
    /\ none_run' = 0
    /\ tick' = 1 - tick
    /\ UNCHANGED <<queued_results, next_incoming_index, next_outgoing_index,
                   submitted, emitted, none_seen>>

\* The caller polls the stream.
PollNext ==
    \E out \in poll_next(this) :
        /\ SetThis(out.self)
        /\ emitted' = IF out.ret.kind = "ReadySome"
                      THEN Append(emitted, out.src)
                      ELSE emitted
        /\ op' = "poll_next"
        /\ ret' = out.ret
        /\ mux_polls' = out.polls
        /\ none_seen' = (none_seen \/ out.ret.kind = "ReadyNone")
        /\ none_run' = IF out.ret.kind # "ReadyNone" THEN 0
                       ELSE IF none_run < 2 THEN none_run + 1
                       ELSE none_run
        /\ tick' = 1 - tick
        /\ UNCHANGED submitted

Next ==
    \/ \E future \in Futures : Push(future)
    \/ \E iter \in Lists : FromIter(iter)
    \/ \E i \in 1..MaxTasks : Complete(i)
    \/ PollNext

Spec == Init /\ [][Next]_vars

\* The scheduler keeps polling the stream and every future eventually resolves.
FairSpec ==
    /\ Spec
    /\ WF_vars(PollNext)
    /\ WF_vars(\E i \in 1..MaxTasks : Complete(i))

\* ------------------------------------------------------------------ claims

\* Sequence numbers held by the multiplexer and by the heap.
InFlight(self) == {self.in_progress_queue[i].index : i \in 1..Len(self.in_progress_queue)}

Buffered(self) == {self.queued_results[i].index : i \in 1..Len(self.queued_results)}

\* The future that is next to be released is in the multiplexer and does not resolve yet.
HeadPending ==
    \E i \in 1..Len(in_progress_queue) :
        /\ in_progress_queue[i].index = next_outgoing_index
        /\ ~in_progress_queue[i].item.ready

\* C1: the items poll_next has returned are, in order, the outputs of the
\* first futures pushed: the k-th item returned (k = 0, 1, ...) comes from the
\* wrapper with index k and is the output of the k-th future pushed, and the
\* item a poll has just returned is the latest of them.
C1_OrderPreserved ==
    /\ Len(emitted) <= Len(submitted)
    /\ \A k \in 1..Len(emitted) :
          /\ emitted[k].index = k - 1
          /\ emitted[k].item = submitted[k].output
    /\ (op = "poll_next" /\ ret.kind = "ReadySome") =>
          /\ emitted # <<>>
          /\ ret.item = submitted[Len(emitted)].output

\* C1 witness: two different items were returned in push order while the
\* result of a later future, resolved before them, waits in the heap.
C1_Witness ==
    /\ Len(emitted) >= 2
    /\ emitted[1].item # emitted[2].item
    /\ queued_results # <<>>
    /\ op = "poll_next"
    /\ ret.kind = "ReadySome"

\* C2: a poll made while the queue is not empty and the future whose index is
\* next_outgoing_index has not resolved returns Pending; it releases nothing,
\* and every result of a later future stays in the queue.
C2_NoEarlyRelease ==
    [][(HeadPending /\ len(this) > 0 /\ op' = "poll_next") =>
          /\ ret'.kind = "Pending"
          /\ emitted' = emitted
          /\ next_outgoing_index' = next_outgoing_index
          /\ len(this)' = len(this)
          /\ (InFlight(this) \cup Buffered(this))' = InFlight(this) \cup Buffered(this)
          /\ Buffered(this) \subseteq Buffered(this)']_vars

\* C2 witness: a poll returned Pending with the next future unresolved and a
\* later future's result in the heap.
C2_Witness ==
    /\ op = "poll_next"
    /\ ret.kind = "Pending"
    /\ HeadPending
    /\ queued_results # <<>>
    /\ mux_polls >= 2

\* C3: when the stream keeps being polled and every future in the
\* multiplexer eventually resolves, the output of every future pushed is
\* eventually returned by poll_next: again and again, every future pushed
\* so far has had its output returned.
C3_EveryResultReturned ==
    []<>(/\ Len(emitted) = Len(submitted)
         /\ \A k \in 1..Len(submitted) : emitted[k].item = submitted[k].output)

\* C3 witness: every future pushed had its output returned, after results
\* were held in the heap.
C3_Witness ==
    /\ Len(submitted) >= 3
    /\ Len(emitted) = Len(submitted)
    /\ op = "poll_next"
    /\ ret.kind = "ReadySome"
    /\ mux_polls = 0

\* C4: when poll_next has returned Ready(None) the queue holds nothing: no
\* future in the multiplexer, no result in the heap, len() = 0 and
\* next_outgoing_index = next_incoming_index.
C4_NoneOnlyWhenEmpty ==
    (op = "poll_next" /\ ret.kind = "ReadyNone") =>
        /\ in_progress_queue = <<>>
        /\ queued_results = <<>>
        /\ is_empty(this)
        /\ len(this) = 0
        /\ next_outgoing_index = next_incoming_index

\* C4 witness: Ready(None) was returned after futures were pushed and their
\* results returned.
C4_Witness ==
    /\ op = "poll_next"
    /\ ret.kind = "ReadyNone"
    /\ Len(emitted) >= 2

\* C5: a newly made queue, with nothing pushed, has both indices 0 and a
\* poll of it (the first one included) returns Ready(None).
C5_FreshQueueReturnsNone ==
    (submitted = <<>>) =>
        /\ next_incoming_index = 0
        /\ next_outgoing_index = 0
        /\ (op = "poll_next" => ret = ReadyNone)

\* C5 witness: the first poll of a queue with nothing pushed.
C5_Witness ==
    /\ submitted = <<>>
    /\ op = "poll_next"
    /\ none_run = 1
    /\ ret = ReadyNone

\* C6: once poll_next has returned Ready(None), a poll made while a pushed
\* future's output has not been returned yet never returns Ready(None): it
\* returns Pending, and then the next future to release has not resolved, or
\* it returns the output of the next future to release.
C6_ResumesAfterNone ==
    [][(none_seen /\ op' = "poll_next" /\ Len(emitted) < Len(submitted)) =>
          /\ ret'.kind \in {"Pending", "ReadySome"}
          /\ (ret'.kind = "Pending") => HeadPending
          /\ (ret'.kind = "ReadySome") =>
                ret'.item = submitted[Len(emitted) + 1].output]_vars

\* C6 witness: after a Ready(None), a future was pushed and a poll returned
\* its output.
C6_Witness ==
    /\ none_seen
    /\ op = "poll_next"
    /\ ret.kind = "ReadySome"
    /\ Len(submitted) = 1
    /\ Len(emitted) = 1

\* C7: a poll that follows a poll that returned Ready(None), with no push in
\* between, returns Ready(None) and leaves the indices, the multiplexer and
\* the heap as they were.
C7_NoneIsRepeated ==
    [][(op = "poll_next" /\ ret.kind = "ReadyNone" /\ op' = "poll_next") =>
          /\ ret' = ReadyNone
          /\ next_incoming_index' = next_incoming_index
          /\ next_outgoing_index' = next_outgoing_index
          /\ in_progress_queue' = in_progress_queue
          /\ queued_results' = queued_results
          /\ emitted' = emitted]_vars

\* C7 witness: two polls in a row returned Ready(None), after results were
\* returned.
C7_Witness ==
    /\ none_run = 2
    /\ op = "poll_next"
    /\ ret = ReadyNone
    /\ Len(emitted) >= 1

\* C8: len() is the number of futures pushed minus the number of results
\* returned, which is next_incoming_index - next_outgoing_index, however
\* many results are in the heap.
C8_CountAccounting ==
    /\ next_incoming_index = Len(submitted)
    /\ next_outgoing_index = Len(emitted)
    /\ len(this) = Len(submitted) - Len(emitted)
    /\ len(this) = next_incoming_index - next_outgoing_index

\* C8 witness: a result has been returned while one result is in the heap
\* and one future in the multiplexer.
C8_Witness ==
    /\ Len(emitted) >= 1
    /\ queued_results # <<>>
    /\ in_progress_queue # <<>>
    /\ len(this) = 2

\* C9: push tags the future with the current next_incoming_index, advances
\* next_incoming_index by one and adds that one future to the multiplexer,
\* as it was given; it polls nothing: next_outgoing_index, the heap, the
\* futures already in the multiplexer and the results returned are unchanged.
C9_PushFrame ==
    [][(op' = "push") =>
          /\ next_incoming_index' = next_incoming_index + 1
          /\ Len(in_progress_queue') = Len(in_progress_queue) + 1
          /\ SubSeq(in_progress_queue', 1, Len(in_progress_queue)) = in_progress_queue
          /\ in_progress_queue'[Len(in_progress_queue')] =
                [item |-> submitted'[Len(submitted')], index |-> next_incoming_index]
          /\ next_outgoing_index' = next_outgoing_index
          /\ queued_results' = queued_results
          /\ emitted' = emitted
          /\ mux_polls' = 0]_vars

\* C9 witness: a push made while a resolved future is in the multiplexer and
\* a result is in the heap.
C9_Witness ==
    /\ op = "push"
    /\ queued_results # <<>>
    /\ Len(in_progress_queue) >= 2
    /\ in_progress_queue[1].item.ready

\* new() followed by a push of each future of the list, in list order.
RECURSIVE PushEach(_, _)
PushEach(self, list) ==
    IF list = <<>> THEN self
    ELSE PushEach(push(self, Head(list)), Tail(list))

\* C10: the queue from_iter builds from a list is the queue new() and a push
\* of each future in list order give: the i-th future has index i, untouched,
\* next_incoming_index is the length of the list, next_outgoing_index is 0,
\* the heap is empty and nothing has been polled.
C10_BulkConstruction ==
    (op = "from_iter") =>
        /\ this = PushEach(new, submitted)
        /\ in_progress_queue =
              [i \in 1..Len(submitted) |-> [item |-> submitted[i], index |-> i - 1]]
        /\ next_incoming_index = Len(submitted)
        /\ next_outgoing_index = 0
        /\ queued_results = <<>>
        /\ emitted = <<>>
        /\ mux_polls = 0

\* C10 witness: a queue built from a list of three futures, one of them
\* already able to resolve.
C10_Witness ==
    /\ op = "from_iter"
    /\ Len(submitted) = 3
    /\ submitted[2].ready
    /\ ~submitted[1].ready

\* ------------------------------------------------- scenario: A, B, C

\* Sequence numbers whose futures have resolved: resolved in the multiplexer,
\* held in the heap, or returned.
Done ==
    {in_progress_queue[i].index :
        i \in {j \in 1..Len(in_progress_queue) : in_progress_queue[j].item.ready}}
    \cup Buffered(this)
    \cup {emitted[k].index : k \in 1..Len(emitted)}

\* A, B and C are pushed, none of them resolved.
ScenarioPush ==
    /\ next_incoming_index < 3
    /\ \E v \in Values : Push([output |-> v, ready |-> FALSE])

\* C (index 2) resolves first, then A (index 0), then B (index 1).
ScenarioComplete ==
    /\ Len(submitted) = 3
    /\ \E i \in 1..Len(in_progress_queue) :
          /\ \/ in_progress_queue[i].index = 2 /\ Done = {}
             \/ in_progress_queue[i].index = 0 /\ Done = {2}
             \/ in_progress_queue[i].index = 1 /\ Done = {0, 2}
          /\ Complete(i)

\* The caller polls at any time after the three pushes.
ScenarioPoll ==
    /\ Len(submitted) = 3
    /\ PollNext

ScenarioNext ==
    \/ ScenarioPush
    \/ ScenarioComplete
    \/ ScenarioPoll

ScenarioSpec == Init /\ [][ScenarioNext]_vars

\* What the polls of the scenario return up to B's value, and after C's.
ScenarioOutcomes ==
    /\ (next_outgoing_index = 0 /\ 0 \notin Done) => ret'.kind = "Pending"
    /\ (next_outgoing_index = 0 /\ 0 \in Done) =>
          ret' = ReadySome(submitted[1].output)
    /\ (next_outgoing_index = 1 /\ 1 \notin Done) => ret'.kind = "Pending"
    /\ (next_outgoing_index = 1 /\ 1 \in Done) =>
          ret' = ReadySome(submitted[2].output)
    /\ (next_outgoing_index = 2) => ret' = ReadySome(submitted[3].output)
    /\ (next_outgoing_index = 3) => ret' = ReadyNone

\* C11 as stated: in the scenario every poll returns Pending until A has
\* resolved, then A's output; Pending until B has resolved, then B's output;
\* the next poll returns C's output from the heap without a poll of the
\* multiplexer; the next poll returns Ready(None).
C11_ScenarioAsStated ==
    [][(Len(submitted) = 3 /\ op' = "poll_next") =>
          /\ ScenarioOutcomes
          /\ (next_outgoing_index = 2) =>
                /\ mux_polls' = 0
                /\ in_progress_queue' = in_progress_queue]_vars

\* C11 amended: the same outcomes, and the poll that returns C's output makes
\* no poll of the multiplexer when C's result is in the heap, one poll of it
\* when C's result is still in the multiplexer; a poll that returns Pending
\* after C has resolved leaves C's result in the heap, where it stays until
\* A's and B's outputs have been returned.
C11_Scenario ==
    [][(Len(submitted) = 3 /\ op' = "poll_next") =>
          /\ ScenarioOutcomes
          /\ (next_outgoing_index = 2 /\ 2 \in Buffered(this)) =>
                /\ mux_polls' = 0
                /\ in_progress_queue' = in_progress_queue
          /\ (next_outgoing_index = 2 /\ 2 \notin Buffered(this)) =>
                /\ mux_polls' = 1
                /\ in_progress_queue' = <<>>
          /\ (ret'.kind = "Pending" /\ 2 \in Done) => 2 \in Buffered(this)'
          /\ (next_outgoing_index < 2 /\ 2 \in Buffered(this)) =>
                2 \in Buffered(this)']_vars

\* C11 witness: after Pending polls, A's and B's outputs, a poll returned C's
\* output from the heap without a poll of the multiplexer.
C11_Witness ==
    /\ Len(submitted) = 3
    /\ Len(emitted) = 3
    /\ op = "poll_next"
    /\ ret = ReadySome(submitted[3].output)
    /\ mux_polls = 0
    /\ submitted[3].output # submitted[2].output

\* -------------------------------------------------------- one poll call

\* Sequence numbers of the futures in the multiplexer that resolve when polled.
ReadyInFlight ==
    {in_progress_queue[i].index :
        i \in {j \in 1..Len(in_progress_queue) : in_progress_queue[j].item.ready}}

\* C12 as stated: a poll changes the queue by at most one entry: it moves
\* one entry from the multiplexer to the heap, or it releases one entry and
\* advances next_outgoing_index by one.
C12_AtMostOneEntryAsStated ==
    [][(op' = "poll_next") =>
          \/ this' = this
          \/ /\ Len(in_progress_queue') = Len(in_progress_queue) - 1
             /\ Len(queued_results') = Len(queued_results) + 1
             /\ next_outgoing_index' = next_outgoing_index
          \/ /\ len(this)' = len(this) - 1
             /\ next_outgoing_index' = next_outgoing_index + 1
             /\ \/ in_progress_queue' = in_progress_queue
                \/ queued_results' = queued_results]_vars

\* C12 amended: a poll releases at most one entry, exactly when it returns
\* Ready(Some(item)), and then advances next_outgoing_index by one; in the
\* same call it may move any number of resolved out-of-turn entries from the
\* multiplexer to the heap (none when the released entry comes from the heap);
\* it changes nothing else.
C12_AtMostOneRelease ==
    [][(op' = "poll_next") =>
          /\ next_incoming_index' = next_incoming_index
          /\ next_outgoing_index' =
                next_outgoing_index + (IF ret'.kind = "ReadySome" THEN 1 ELSE 0)
          /\ len(this)' = len(this) - (next_outgoing_index' - next_outgoing_index)
          /\ InFlight(this)' \subseteq InFlight(this)
          /\ (InFlight(this) \ InFlight(this)') \subseteq
                (ReadyInFlight \cap (Buffered(this)' \cup {next_outgoing_index}))
          /\ Buffered(this) \subseteq (Buffered(this)' \cup {next_outgoing_index})
          /\ Buffered(this)' \subseteq (Buffered(this) \cup InFlight(this))
          /\ (ret'.kind # "ReadySome") => Buffered(this) \subseteq Buffered(this)'
          /\ (mux_polls' = 0) => in_progress_queue' = in_progress_queue]_vars

\* C12 witness: one poll moved two entries to the heap and released a third.
C12_Witness ==
    /\ op = "poll_next"
    /\ ret.kind = "ReadySome"
    /\ mux_polls = 3
    /\ Len(queued_results) = 2

\* C13: a poll made when the heap's entry of least index has index
\* next_outgoing_index removes that entry, advances next_outgoing_index by
\* one and returns the entry's item, without a poll of the multiplexer: the
\* multiplexer is unchanged, resolved futures in it included.
C13_BufferFastPath ==
    [][(/\ op' = "poll_next"
        /\ queued_results # <<>>
        /\ \A k \in Buffered(this) : next_outgoing_index <= k
        /\ next_outgoing_index \in Buffered(this)) =>
          /\ next_outgoing_index' = next_outgoing_index + 1
          /\ \E i \in 1..Len(queued_results) :
                /\ queued_results[i].index = next_outgoing_index
                /\ queued_results' = RemoveAt(queued_results, i)
                /\ ret' = ReadySome(queued_results[i].item)
          /\ in_progress_queue' = in_progress_queue
          /\ mux_polls' = 0]_vars

\* C13 witness: a poll returned an item from the heap while a resolved
\* future stayed in the multiplexer.
C13_Witness ==
    /\ op = "poll_next"
    /\ ret.kind = "ReadySome"
    /\ mux_polls = 0
    /\ ReadyInFlight # {}

\* C14: in a poll that goes to the loop, every multiplexer poll but the last
\* one ends with a result put into the heap; when the poll returns Pending,
\* every future that had resolved is in the heap, no future left in the
\* multiplexer resolves, and the future with index next_outgoing_index is in
\* the multiplexer, unresolved.
C14_Draining ==
    /\ []((op = "poll_next" /\ ret.kind = "Pending") =>
            /\ ReadyInFlight = {}
            /\ HeadPending)
    /\ [][(op' = "poll_next" /\ mux_polls' > 0) =>
            /\ Len(queued_results') = Len(queued_results) + mux_polls' - 1
            /\ (ret'.kind = "Pending") =>
                  /\ ReadyInFlight \subseteq Buffered(this)'
                  /\ mux_polls' = Cardinality(ReadyInFlight) + 1]_vars

\* C14 witness: a poll put two results into the heap and returned Pending.
C14_Witness ==
    /\ op = "poll_next"
    /\ ret.kind = "Pending"
    /\ mux_polls = 3
    /\ Len(queued_results) = 2
    /\ HeadPending

\* ---------------------------------------------------- indices and sets

\* C15: 0 <= next_outgoing_index <= next_incoming_index in every state, both
\* start at 0 and never decrease; next_incoming_index changes only by a push,
\* by one (from_iter makes one push per future of its list), and
\* next_outgoing_index changes only by a poll that returns Ready(Some(item)),
\* by one.
C15_Counters ==
    /\ [](/\ 0 <= next_outgoing_index
          /\ next_outgoing_index <= next_incoming_index
          /\ (op = "new") => (next_incoming_index = 0 /\ next_outgoing_index = 0))
    /\ [][/\ next_incoming_index' >= next_incoming_index
          /\ next_outgoing_index' >= next_outgoing_index
          /\ (next_incoming_index' # next_incoming_index) =>
                \/ op' = "push" /\ next_incoming_index' = next_incoming_index + 1
                \/ /\ op' = "from_iter"
                   /\ next_incoming_index' = next_incoming_index + Len(submitted')
          /\ (op' = "push") => next_incoming_index' = next_incoming_index + 1
          /\ (next_outgoing_index' # next_outgoing_index) =>
                /\ op' = "poll_next"
                /\ ret'.kind = "ReadySome"
                /\ next_outgoing_index' = next_outgoing_index + 1
          /\ (op' = "poll_next" /\ ret'.kind = "ReadySome") =>
                next_outgoing_index' = next_outgoing_index + 1]_vars

\* C15 witness: both counters have advanced and differ.
C15_Witness ==
    /\ next_outgoing_index = 2
    /\ next_incoming_index = 3
    /\ op = "push"

\* C16: the sequence numbers in the multiplexer together with those in the
\* heap are exactly next_outgoing_index .. next_incoming_index - 1, each held
\* once, and none is both in the multiplexer and in the heap.
C16_HeldSequenceNumbers ==
    /\ InFlight(this) \cup Buffered(this) =
          next_outgoing_index .. (next_incoming_index - 1)
    /\ InFlight(this) \cap Buffered(this) = {}
    /\ Cardinality(InFlight(this)) = Len(in_progress_queue)
    /\ Cardinality(Buffered(this)) = Len(queued_results)

\* C16 witness: after a release, one sequence number is in the heap and
\* another in the multiplexer.
C16_Witness ==
    /\ next_outgoing_index = 1
    /\ Buffered(this) = {2}
    /\ InFlight(this) = {1}

\* C17: sequence numbers are given out in strictly increasing order and are
\* never reused: no two entries of the heap, and no two futures of the
\* multiplexer, have the same index, and a result the multiplexer can yield
\* has an index no entry of the heap has.
C17_UniqueSequenceNumbers ==
    /\ \A i, j \in 1..Len(queued_results) :
          (i # j) => queued_results[i].index # queued_results[j].index
    /\ \A i, j \in 1..Len(in_progress_queue) :
          (i < j) => in_progress_queue[i].index < in_progress_queue[j].index
    /\ \A i \in 1..Len(in_progress_queue) :
          /\ in_progress_queue[i].index < next_incoming_index
          /\ \A j \in 1..Len(queued_results) :
                in_progress_queue[i].index # queued_results[j].index
    /\ \A j \in 1..Len(queued_results) :
          queued_results[j].index < next_incoming_index

\* C17 witness: two entries in the heap while a future is in the multiplexer.
C17_Witness ==
    /\ Len(queued_results) = 2
    /\ op = "poll_next"
    /\ Len(in_progress_queue) = 1

\* C18: every entry of the heap has an index >= next_outgoing_index, and a
\* result put into the heap by a poll has an index > the next_outgoing_index
\* of that moment.
C18_BufferedNotReleased ==
    /\ [](\A j \in 1..Len(queued_results) :
            queued_results[j].index >= next_outgoing_index)
    /\ [][(op' = "poll_next") =>
            \A k \in Buffered(this)' \ Buffered(this) :
                /\ k > next_outgoing_index
                /\ k >= next_outgoing_index']_vars

\* C18 witness: a poll put a result into the heap and released another.
C18_Witness ==
    /\ op = "poll_next"
    /\ ret.kind = "ReadySome"
    /\ mux_polls = 2
    /\ Len(queued_results) = 1
    /\ next_outgoing_index = 2

\* C19: a poll made when the result for next_outgoing_index is at hand, in
\* the heap or as a resolved future of the multiplexer, returns that result
\* as Ready(Some(item)).
C19_PromptRelease ==
    [][(/\ op' = "poll_next"
        /\ \/ next_outgoing_index \in Buffered(this)
           \/ next_outgoing_index \in ReadyInFlight) =>
          /\ ret' = ReadySome(submitted[next_outgoing_index + 1].output)
          /\ Len(emitted') = Len(emitted) + 1
          /\ emitted'[Len(emitted')].index = next_outgoing_index
          /\ next_outgoing_index' = next_outgoing_index + 1]_vars

\* C19 witness: the multiplexer yielded a later result first, and the same
\* poll still returned the result for next_outgoing_index.
C19_Witness ==
    /\ op = "poll_next"
    /\ ret.kind = "ReadySome"
    /\ mux_polls = 2
    /\ next_outgoing_index = 1
    /\ Buffered(this) = {2}

\* C20: a poll made with n futures in the multiplexer makes at most n + 1
\* polls of it: every multiplexer poll but the last takes one future out of
\* it, and the last takes one out only when the poll returns an item.
C20_PollTerminates ==
    [][(op' = "poll_next") =>
          /\ mux_polls' <= Len(in_progress_queue) + 1
          /\ Len(in_progress_queue) - Len(in_progress_queue') =
                IF mux_polls' = 0 THEN 0
                ELSE mux_polls' - (IF ret'.kind = "ReadySome" THEN 0 ELSE 1)
          /\ ret'.kind \in {"ReadySome", "ReadyNone", "Pending"}]_vars

\* C20 witness: a poll made with three futures in the multiplexer took all
\* of them out and returned after three multiplexer polls.
C20_Witness ==
    /\ op = "poll_next"
    /\ mux_polls = 3
    /\ in_progress_queue = <<>>
    /\ ret.kind = "ReadySome"

====
